---- MODULE Spec2Model ----
(***************************************************************************)
(* A model of chat_json_to_md.py and of the part of chat_md_gui.py that    *)
(* runs it.                                                                *)
(*                                                                         *)
(* The specifications of the module, each over its own group of variables  *)
(* (the other groups stay idle):                                           *)
(*   SpecBatch      one run of convert_path                                *)
(*   SpecHang       the same, with at most one conversion that never ends  *)
(*   SpecGui        the same, started by an action of the control surface  *)
(*   SpecLocate     two calls of the reference locator of try_embed_file   *)
(*   SpecNorm       _normalize_raw_path applied twice to one raw string    *)
(*   SpecEmbed      try_embed_file on one resolved asset                   *)
(*   SpecTimestamp  _format_timestamp on a number and on its thousandfold  *)
(*   SpecMessages   extract_messages, request by request                   *)
(*   SpecStats      _collect_code_stats, message by message                *)
(*   SpecConvert    convert_file on one input file                         *)
(*   SpecCopy       try_embed_file copying assets, by concurrent workers   *)
(*                                                                         *)
(* and a model of aggregate_markdown.py:                                   *)
(*   SpecAggregate  aggregate called several times in one process          *)
(***************************************************************************)
EXTENDS Integers, Sequences, FiniteSets, TLC

(***************************************************************************)
(* Bounds.                                                                 *)
(***************************************************************************)
\* Number of *.json files below the input directory, numbered in the order
\* os.walk discovers them.
NumFiles == 3
\* Largest max_workers handed to convert_path.
MaxWorkers == 2

Files == 1..NumFiles

(***************************************************************************)
(* What convert_file does with a file is fixed by the file's content and   *)
(* by the filesystem; the model names the five cases:                      *)
(*   ok          accepted session, document written                        *)
(*   unreadable  load_json raises (missing, not UTF-8, not JSON)           *)
(*   rejected    is_chat_session_json returns False                        *)
(*   malformed   accepted, but a request entry is not a mapping, so        *)
(*               extract_messages raises AttributeError                    *)
(*   unwritable  accepted, but os.makedirs / write_output raises OSError   *)
(***************************************************************************)
Kinds == {"ok", "unreadable", "rejected", "malformed", "unwritable"}

\* A sixth case, outside Kinds: convert_file never returns (a read that
\* blocks for ever).  No timeout exists anywhere in the program.
Hanging == {"hangs"}

VARIABLES
    \* ---- inputs of one convert_path run
    kind,          \* [Files -> Kinds]
    passes,        \* [Files -> BOOLEAN]: file_filter(path)
    inputIsFile,   \* os.path.isfile(path): the input is file 1 alone
    parallel,      \* the parallel argument
    max_workers,   \* the max_workers argument
    \* ---- state of the run
    cancel_flag,   \* threading.Event: set or not
    pc,            \* position of the thread running convert_path
    all_json,      \* the filtered candidates, in discovery order
    total,
    converted,     \* the result list (an output path is named by its input file)
    done,
    queue,         \* executor work queue: submitted, not yet started
    running,       \* files inside convert_file right now
    result,        \* [Files -> {"pending","md","none","raise"}]: convert_file's outcome
    yielded,       \* futures already yielded by as_completed
    excPending,    \* fut.result() raised; the with-block is unwinding
    outcome,       \* how convert_path ended
    \* ---- observations
    started,       \* files on which convert_file has been called
    written,       \* files whose Markdown document has been written
    reports,       \* progress_cb calls so far: <<done, total, file>>
    cancelAt       \* <<#started, #finished>> when the flag was set, or <<>>

batchVars == <<kind, passes, inputIsFile, parallel, max_workers, cancel_flag, pc,
               all_json, total, converted, done, queue, running, result, yielded,
               excPending, outcome, started, written, reports, cancelAt>>

\* ---- the reference locator (SpecLocate)
VARIABLES
    fs,            \* [Dirs -> SUBSET Names]: the files of each directory under file_root
    refDir,        \* the directory the normalised reference points into, or NoDir
    refName,       \* os.path.basename(norm_raw)
    located        \* the candidates resolved by the calls made so far

locVars == <<fs, refDir, refName, located>>

\* ---- path normalisation (SpecNorm)
VARIABLES
    raw_path,      \* the raw reference string
    normed         \* normed[1] = normalised raw_path, normed[i+1] = normalised normed[i]

normVars == <<raw_path, normed>>

\* ---- embedding one resolved asset (SpecEmbed)
VARIABLES
    asset,         \* the resolved candidate: [category, size, encoding, dir]
    ctx,           \* the embed context: [img_max, text_max, mdDir]
    io,            \* the filesystem's answers: [fail, targetExists]
    embedOut       \* what try_embed_file did, or NotEmbedded

embedVars == <<asset, ctx, io, embedOut>>

\* ---- timestamps (SpecTimestamp)
VARIABLES
    raw_ts,        \* a raw timestamp, as its decimal digits
    isoRaw,        \* the UTC ISO-8601 output for raw_ts, or NotFormatted
    isoScaled      \* the UTC ISO-8601 output for raw_ts * 1000, or NotFormatted

tsVars == <<raw_ts, isoRaw, isoScaled>>

\* ---- extract_messages on one session record (SpecMessages)
VARIABLES
    req_index,     \* the request the outer loop is at (0: before the loop)
    resp_index,    \* response items of that request already looked at
    lines,         \* the list being built
    dropped        \* some message or response item produced no entry

msgVars == <<req_index, resp_index, lines, dropped>>

\* ---- _collect_code_stats on a list of messages (SpecStats)
VARIABLES
    msg_no,        \* messages the loop has been through
    stats,         \* [code_blocks, code_block_lines, code_langs] so far
    expected,      \* the same three, as the messages were put together
    wellFormed,    \* every message so far was made of text and closed blocks
    pairs          \* fences of each message, paired in order, summed

statVars == <<msg_no, stats, expected, wellFormed, pairs>>

\* ---- convert_file on one input file (SpecConvert)
VARIABLES
    input,         \* the file: [readable, data, dest]
    convOut        \* what convert_file did, or NotConverted

convVars == <<input, convOut>>

\* ---- aggregate called several times in one process (SpecAggregate)
VARIABLES
    SlugCache,     \* the module-level dict of aggregate_markdown.py: its keys
    md_files,      \* the *.md files under root as os.walk lists them:
                   \* sequence of [path, readable, mtime]
    sort_mode,     \* "name" or "mtime"
    agg_run,       \* the call of aggregate that is running (later: ran last + 1)
    agg_pos,       \* files the loop of the running call has been through
    rel_slug_pairs \* per call, the (name, slug) pairs it collected

aggVars == <<SlugCache, md_files, sort_mode, agg_run, agg_pos, rel_slug_pairs>>

\* ---- embeddings that copy an asset, run by concurrent workers (SpecCopy)
VARIABLES
    disk,          \* [Places -> bytes of the file named x there, or NoFile]
    emb_pc,        \* [Embedders -> "idle" | "missing" | "copying"]
    emb_src,       \* [Embedders -> place of the candidate being embedded]
    emb_off,       \* [Embedders -> chunks the running copy has written]
    links,         \* emitted links: <<place of the candidate, place linked to>>
    embeds         \* calls of try_embed_file so far

copyVars == <<disk, emb_pc, emb_src, emb_off, links, embeds>>

auxVars == <<embedVars, tsVars, msgVars, statVars, convVars, aggVars, copyVars>>

\* ---- the control surface running convert_path (SpecGui)
VARIABLES
    gui_action,    \* "generate", "both" (generate then aggregate), or "none"
    inWindow,      \* [Files -> BOOLEAN]: date_filter(path)
    aggregated     \* aggregate_markdown.aggregate has been called

guiVars == <<gui_action, inWindow, aggregated>>

vars == <<batchVars, locVars, normVars, auxVars, guiVars>>

Range(s) == {s[i] : i \in 1..Len(s)}

(***************************************************************************)
(* convert_file                                                            *)
(***************************************************************************)
\* The value convert_file produces for a file of kind k: "md" (the output
\* path), "none" (None: warned and skipped) or "raise" (an exception leaves
\* convert_file: only load_json is inside the try block).
ConvertOutcome(k) ==
    CASE k = "unreadable" -> "none"
      [] k = "rejected"   -> "none"
      [] k = "malformed"  -> "raise"
      [] k = "unwritable" -> "raise"
      [] OTHER            -> "md"

\* write_output is reached, and succeeds, only for an ok file.
WritesDoc(k) == ConvertOutcome(k) = "md"

(***************************************************************************)
(* Small pieces of convert_path                                            *)
(***************************************************************************)
\* cancel_flag and cancel_flag.is_set()
CancelIgnored == FALSE
CancelRequested == cancel_flag

\* not file_filter or file_filter(full_path)
KeepAll(f) == TRUE
Keep(f) == passes[f]

RECURSIVE Discover(_)
\* The os.walk loop: the candidates among files f..NumFiles, in order.
Discover(f) ==
    IF f > NumFiles THEN <<>>
    ELSE (IF Keep(f) THEN <<f>> ELSE <<>>) \o Discover(f + 1)

\* for p in all_json: the candidate of the next sequential iteration
NextSeqFileReversed == all_json[total - done]
NextSeqFile == all_json[done + 1]

\* if md: converted.append(md)
CollectAlways(md, f) == Append(converted, f)
Collect(md, f) == IF md = "md" THEN Append(converted, f) ELSE converted

\* The closing report of convert_path.
FinalOutcome == IF CancelRequested THEN "cancelled" ELSE "completed"

NumFinished == Cardinality({f \in Files : result[f] # "pending"})


(***************************************************************************)
(* Characters and names.  A string is a sequence of one-character strings. *)
(***************************************************************************)
\* Characters str.strip() and the regular expression \s treat as whitespace.
Whitespace == {" ", "\t", "\n", "\r", "\f"}

UpperLetters == <<"A", "B", "C", "D", "E", "F", "G", "H", "I", "J", "K", "L", "M",
                  "N", "O", "P", "Q", "R", "S", "T", "U", "V", "W", "X", "Y", "Z">>
LowerLetters == <<"a", "b", "c", "d", "e", "f", "g", "h", "i", "j", "k", "l", "m",
                  "n", "o", "p", "q", "r", "s", "t", "u", "v", "w", "x", "y", "z">>

\* str.lower() on one character
LowerChar(c) ==
    IF \E i \in 1..26 : UpperLetters[i] = c
    THEN LowerLetters[CHOOSE i \in 1..26 : UpperLetters[i] = c]
    ELSE c

\* str.lower()
LowerStr(s) == [i \in 1..Len(s) |-> LowerChar(s[i])]

RECURSIVE RemoveWhitespace(_)
\* re.sub(r'\s+', '', name)
RemoveWhitespace(s) ==
    IF s = <<>> THEN <<>>
    ELSE IF Head(s) \in Whitespace THEN RemoveWhitespace(Tail(s))
    ELSE <<Head(s)>> \o RemoveWhitespace(Tail(s))

\* _simplify_name: whitespace removed, then lower case
_simplify_name(name) == LowerStr(RemoveWhitespace(name))

(***************************************************************************)
(* The directory tree under file_root and the fallback search of           *)
(* try_embed_file (lines 356-394).                                         *)
(***************************************************************************)
\* Number of directories below file_root.
NumSubdirs == 2
\* Number of calls of the locator on the unchanged tree.
NumCalls == 2

\* Directory 0 is file_root.  Directories 1 and 2 lie in file_root and
\* directory d > 2 lies in directory d - 2; siblings with a smaller number
\* have the lexicographically smaller name.
Dirs == 0..NumSubdirs
SubDirs == 1..NumSubdirs
Parent(d) == IF d <= 2 THEN 0 ELSE d - 2
Children(d) == {c \in SubDirs : Parent(c) = d}

\* The file names that occur: an exact name, and two names that differ from
\* it in letter case or whitespace only.
Names == {<<"n", "t">>, <<"N", "t">>, <<"n", " ", "t">>}

NoDir == -1
Miss == <<>>

\* The orders in which os.scandir may list the members of a set: every order.
Rankings(S) == {r \in [S -> 1..Cardinality(S)] : \A a, b \in S : a # b => r[a] # r[b]}

RECURSIVE SeqBy(_, _)
\* The members of S as listed under ranking r.
SeqBy(S, r) ==
    IF S = {} THEN <<>>
    ELSE LET m == CHOOSE x \in S : \A y \in S : r[x] <= r[y]
         IN  <<m>> \o SeqBy(S \ {m}, r)

RECURSIVE Walk(_, _), WalkAll(_, _)
\* os.walk(root), top-down: a directory, then each of its subdirectories in
\* the order its listing gives them.
Walk(d, dr) == <<d>> \o WalkAll(SeqBy(Children(d), dr), dr)
WalkAll(ds, dr) == IF ds = <<>> THEN <<>> ELSE Walk(Head(ds), dr) \o WalkAll(Tail(ds), dr)

\* os.path.exists(candidate), lines 356-365: the normalised path names a file.
DirectExists == refDir # NoDir /\ refName \in fs[refDir]

\* Lines 377-380: the first file of the listing whose simplified name equals
\* the simplified target, or Miss.
FirstFuzzy(d, files) ==
    LET hits == {i \in 1..Len(files) : _simplify_name(files[i]) = _simplify_name(refName)}
    IN  IF hits = {} THEN Miss
        ELSE <<d, files[CHOOSE i \in hits : \A j \in hits : i <= j]>>

RECURSIVE SearchFrom(_, _, _)
\* Lines 372-394: the loop over os.walk(root).  The first directory that has
\* the exact name or a fuzzy match ends the search.
SearchFrom(walk, i, fr) ==
    IF i > Len(walk) THEN Miss
    ELSE LET d == walk[i]
             found_exact == IF refName \in fs[d] THEN <<d, refName>> ELSE Miss
             found_fuzzy == IF found_exact # Miss THEN Miss
                            ELSE FirstFuzzy(d, SeqBy(fs[d], fr))
         IN  IF found_exact # Miss THEN found_exact
             ELSE IF found_fuzzy # Miss THEN found_fuzzy
             ELSE SearchFrom(walk, i + 1, fr)

\* Lines 356-394: the candidate try_embed_file resolves, when the listings
\* come in the orders dr (directories) and fr (files).
Resolve(dr, fr) ==
    IF DirectExists THEN <<refDir, refName>>
    ELSE SearchFrom(Walk(0, dr), 1, fr)

IdleLocate ==
    /\ fs = [d \in Dirs |-> {}]
    /\ refDir = NoDir
    /\ refName = <<>>
    /\ located = <<>>

InitLocate ==
    /\ fs \in [Dirs -> SUBSET Names]
    /\ refDir \in Dirs \cup {NoDir}
    /\ refName \in Names
    /\ located = <<>>

\* One call of the locator.  The tree does not change between calls; the
\* order in which each listing comes is whatever the filesystem gives.
Locate ==
    /\ Len(located) < NumCalls
    /\ \E dr \in Rankings(SubDirs), fr \in Rankings(Names) :
         located' = Append(located, Resolve(dr, fr))
    /\ UNCHANGED <<fs, refDir, refName>>
    /\ UNCHANGED <<guiVars, batchVars, normVars, auxVars>>


(***************************************************************************)
(* Path normalisation: _decode_file_uri (lines 104-114) and                *)
(* _normalize_raw_path (lines 313-335), on POSIX (os.path is posixpath).   *)
(***************************************************************************)
\* Largest number of pieces a raw string is put together from.
MaxPieces == 4
\* Number of times the normalisation is applied in a row.
NumNormCalls == 2

\* The printable ASCII characters, code 32 first (the grave accent, code 96,
\* is written \x60).
Printable == <<
    " ", "!", "\"", "#", "$", "%", "&", "'", "(", ")", "*", "+",
    ",", "-", ".", "/", "0", "1", "2", "3", "4", "5", "6", "7",
    "8", "9", ":", ";", "<", "=", ">", "?", "@", "A", "B", "C",
    "D", "E", "F", "G", "H", "I", "J", "K", "L", "M", "N", "O",
    "P", "Q", "R", "S", "T", "U", "V", "W", "X", "Y", "Z", "[",
    "\\", "]", "^", "_", "\\x60", "a", "b", "c", "d", "e", "f", "g",
    "h", "i", "j", "k", "l", "m", "n", "o", "p", "q", "r", "s",
    "t", "u", "v", "w", "x", "y", "z", "{", "|", "}", "~" >>

HexDigits == <<"0", "1", "2", "3", "4", "5", "6", "7", "8", "9",
               "a", "b", "c", "d", "e", "f", "A", "B", "C", "D", "E", "F">>
IsHex(c) == \E i \in 1..22 : HexDigits[i] = c
HexVal(c) == LET i == CHOOSE j \in 1..22 : HexDigits[j] = c
             IN  IF i <= 16 THEN i - 1 ELSE i - 7

IsLetter(c) == \E i \in 1..26 : UpperLetters[i] = c \/ LowerLetters[i] = c

\* The character a percent-decoded byte b becomes in unquote (UTF-8,
\* errors='replace').  No input of the model holds an escape of a UTF-8 lead
\* byte, so a byte of 128 or more is never part of a valid sequence and is
\* replaced by U+FFFD.
ByteChar(b) ==
    IF b >= 128 THEN "U+FFFD"
    ELSE IF b >= 32 /\ b <= 126 THEN Printable[b - 31]
    ELSE "\\x" \o ToString(b)

RECURSIVE LStrip(_, _)
LStrip(s, cs) == IF s # <<>> /\ Head(s) \in cs THEN LStrip(Tail(s), cs) ELSE s
RECURSIVE RStrip(_, _)
RStrip(s, cs) ==
    IF s # <<>> /\ s[Len(s)] \in cs THEN RStrip(SubSeq(s, 1, Len(s) - 1), cs) ELSE s
\* str.strip(chars)
Strip(s, cs) == RStrip(LStrip(s, cs), cs)

StartsWith(s, p) == Len(s) >= Len(p) /\ SubSeq(s, 1, Len(p)) = p

\* str.split(sep, 1)[-1]: what follows the first sep, or all of s.
AfterFirst(s, sep) ==
    LET at == {i \in 1..(Len(s) - Len(sep) + 1) : SubSeq(s, i, i + Len(sep) - 1) = sep}
    IN  IF at = {} THEN s
        ELSE SubSeq(s, (CHOOSE i \in at : \A j \in at : i <= j) + Len(sep), Len(s))

RECURSIVE unquote(_)
\* urllib.parse.unquote: one pass; %XY with two hex digits becomes a byte,
\* any other % stays.
unquote(s) ==
    IF s = <<>> THEN <<>>
    ELSE IF Head(s) = "%" /\ Len(s) >= 3 /\ IsHex(s[2]) /\ IsHex(s[3])
    THEN <<ByteChar(16 * HexVal(s[2]) + HexVal(s[3]))>> \o unquote(SubSeq(s, 4, Len(s)))
    ELSE <<Head(s)>> \o unquote(Tail(s))

\* re.match(r'^/[A-Za-z]:', s)
DriveSlash(s) == Len(s) >= 3 /\ s[1] = "/" /\ IsLetter(s[2]) /\ s[3] = ":"

\* _decode_file_uri
_decode_file_uri(uri) ==
    IF ~StartsWith(LowerStr(uri), <<"f", "i", "l", "e", ":">>) THEN uri
    ELSE LET path_part == unquote(AfterFirst(uri, <<":", "/", "/">>))
         IN  IF DriveSlash(path_part) THEN Tail(path_part) ELSE path_part

\* raw.replace('\\', '/')
SlashesForward(s) == [i \in 1..Len(s) |-> IF s[i] = "\\" THEN "/" ELSE s[i]]

RECURSIVE CollapseSlashes(_)
\* while '//' in raw: raw = raw.replace('//', '/')
CollapseSlashes(s) ==
    IF Len(s) < 2 THEN s
    ELSE IF s[1] = "/" /\ s[2] = "/" THEN CollapseSlashes(Tail(s))
    ELSE <<Head(s)>> \o CollapseSlashes(Tail(s))

RECURSIVE SplitSlash(_, _)
\* path.split('/'), cur being the component read so far
SplitSlash(s, cur) ==
    IF s = <<>> THEN <<cur>>
    ELSE IF Head(s) = "/" THEN <<cur>> \o SplitSlash(Tail(s), <<>>)
    ELSE SplitSlash(Tail(s), Append(cur, Head(s)))

RECURSIVE NormComps(_, _, _, _)
\* The component loop of posixpath.normpath.
NormComps(comps, i, new_comps, initial_slashes) ==
    IF i > Len(comps) THEN new_comps
    ELSE LET comp == comps[i]
             dotdot == <<".", ".">>
         IN  IF comp = <<>> \/ comp = <<".">>
             THEN NormComps(comps, i + 1, new_comps, initial_slashes)
             ELSE IF \/ comp # dotdot
                     \/ (initial_slashes = 0 /\ new_comps = <<>>)
                     \/ (new_comps # <<>> /\ new_comps[Len(new_comps)] = dotdot)
             THEN NormComps(comps, i + 1, Append(new_comps, comp), initial_slashes)
             ELSE IF new_comps # <<>>
             THEN NormComps(comps, i + 1, SubSeq(new_comps, 1, Len(new_comps) - 1),
                            initial_slashes)
             ELSE NormComps(comps, i + 1, new_comps, initial_slashes)

RECURSIVE JoinSlash(_)
\* '/'.join(comps)
JoinSlash(comps) ==
    IF comps = <<>> THEN <<>>
    ELSE IF Len(comps) = 1 THEN comps[1]
    ELSE comps[1] \o <<"/">> \o JoinSlash(Tail(comps))

\* posixpath.normpath
normpath(path) ==
    IF path = <<>> THEN <<".">>
    ELSE LET initial_slashes ==
                 IF Head(path) # "/" THEN 0
                 ELSE IF StartsWith(path, <<"/", "/">>) /\ ~StartsWith(path, <<"/", "/", "/">>)
                 THEN 2 ELSE 1
             joined == JoinSlash(NormComps(SplitSlash(path, <<>>), 1, <<>>, initial_slashes))
             out == [i \in 1..initial_slashes |-> "/"] \o joined
         IN  IF out = <<>> THEN <<".">> ELSE out

\* _normalize_raw_path
_normalize_raw_path(raw) ==
    IF raw = <<>> THEN raw
    ELSE LET stripped == Strip(Strip(Strip(raw, Whitespace), {"\""}), {"'"})
             decoded == _decode_file_uri(stripped)
             undriven == IF DriveSlash(decoded) THEN Tail(decoded) ELSE decoded
         IN  normpath(CollapseSlashes(SlashesForward(undriven)))

\* The pieces raw strings are put together from: quotes, blank, separators,
\* a drive letter, colon, dot, the file scheme, and percent escapes of
\* '%' (%25), 'A' (%41) and ':' (%3A).
Pieces == { <<"\"">>, <<"'">>, <<" ">>, <<"/">>, <<"\\">>, <<"A">>, <<":">>, <<".">>,
            <<"f", "i", "l", "e", ":">>, <<"F", "i", "l", "e", ":", "/", "/">>,
            <<"%">>, <<"2", "5">>, <<"4", "1">>, <<"3", "A">> }

RECURSIVE RawStrings(_)
\* All concatenations of at most n pieces.
RawStrings(n) ==
    IF n = 0 THEN {<<>>}
    ELSE LET shorter == RawStrings(n - 1)
         IN  shorter \cup {s \o p : s \in shorter, p \in Pieces}

IdleNorm ==
    /\ raw_path = <<>>
    /\ normed = <<>>

InitNorm ==
    /\ raw_path \in RawStrings(MaxPieces)
    /\ normed = <<>>

\* One more application of _normalize_raw_path, to the last value obtained.
Normalize ==
    /\ Len(normed) < NumNormCalls
    /\ normed' = Append(normed, _normalize_raw_path(IF normed = <<>> THEN raw_path
                                                    ELSE normed[Len(normed)]))
    /\ UNCHANGED raw_path
    /\ UNCHANGED <<guiVars, batchVars, locVars, auxVars>>

(***************************************************************************)
(* Embedding a resolved asset: the part of try_embed_file after the        *)
(* candidate path is known.                                                *)
(*                                                                         *)
(* An asset is described by the category of its extension, its size in     *)
(* bytes, the encoding of its bytes and the directory that holds it.  A    *)
(* gbk asset holds two-byte GBK characters only, each of which takes three *)
(* bytes once the document is written as UTF-8.  The Markdown document     *)
(* being rendered lives in ctx.mdDir (ctx['current_md_path']).             *)
(***************************************************************************)
\* Largest asset, and largest ceiling, in bytes.
MaxAssetSize == 4
MaxCeiling == 2

Categories == {"image", "video", "text", "other"}
Encodings == {"utf8", "gbk", "binary"}
AssetDirs == {"in", "out"}
IoFailures == {"none", "read", "mkdir", "copy"}

\* safe_read_bytes returns None
NoData == -1

\* The number of bytes safe_read_bytes returns, or NoData: the size test,
\* and every exception of getsize / open / read turned into None.
safe_read_bytes(max_len) ==
    IF io.fail = "read" THEN NoData
    ELSE IF asset.size > max_len THEN NoData
    ELSE asset.size

\* `not data`: None, and the empty bytes object as well.
NotData(data) == data = NoData \/ data = 0

\* len(base64.b64encode(data))
Base64Len(n) == 4 * ((n + 2) \div 3)

\* The UTF-8 length of the decoded text.
DecodedLen(n) == IF asset.encoding = "gbk" THEN 3 * (n \div 2) ELSE n

EmbedResult(fragment, docBytes, assetsIn, copied) ==
    [fragment |-> fragment, docBytes |-> docBytes, assetsIn |-> assetsIn,
     copiedBytes |-> IF copied THEN asset.size ELSE 0,
     copiedInto |-> IF copied THEN assetsIn ELSE "none"]

NotEmbedded == [fragment |-> "unset", docBytes |-> 0, assetsIn |-> "none",
                copiedBytes |-> 0, copiedInto |-> "none"]

\* md_output_dummy = candidate: the directory the assets directory is made
\* in, and the links are relative to, is the asset's own.
md_output_dummy == asset.dir

\* The video branch and the branch of the other types: ensure_assets_dir
\* (os.makedirs, outside every try), then shutil.copy2 inside a try unless
\* the target exists already, then the link.
CopyToAssets(linkFragment, failFragment) ==
    IF io.fail = "mkdir"
    THEN EmbedResult("raised", 0, "none", FALSE)
    ELSE IF io.targetExists
    THEN EmbedResult(linkFragment, 0, md_output_dummy, FALSE)
    ELSE IF io.fail = "copy"
    THEN EmbedResult(failFragment, 0, md_output_dummy, FALSE)
    ELSE EmbedResult(linkFragment, 0, md_output_dummy, TRUE)

ImageBranch ==
    LET data == safe_read_bytes(ctx.img_max) IN
    IF NotData(data)
    THEN EmbedResult("image_too_large", 0, "none", FALSE)
    ELSE EmbedResult("inline_image", Base64Len(data), "none", FALSE)

TextBranch ==
    LET data == safe_read_bytes(ctx.text_max) IN
    IF NotData(data)
    THEN EmbedResult("text_too_large", 0, "none", FALSE)
    ELSE IF asset.encoding = "binary"
    THEN EmbedResult("undecodable", 0, "none", FALSE)
    ELSE EmbedResult("code_fence", DecodedLen(data), "none", FALSE)

try_embed_file ==
    CASE asset.category = "image" -> ImageBranch
      [] asset.category = "video" -> CopyToAssets("video_tag", "video_copy_failed")
      [] asset.category = "text"  -> TextBranch
      [] OTHER                    -> CopyToAssets("attachment_link", "file_copy_failed")

IdleEmbed ==
    /\ asset = [category |-> "other", size |-> 0, encoding |-> "utf8", dir |-> "in"]
    /\ ctx = [img_max |-> 1, text_max |-> 1, mdDir |-> "in"]
    /\ io = [fail |-> "none", targetExists |-> FALSE]
    /\ embedOut = NotEmbedded

InitEmbed ==
    /\ asset \in [category : Categories, size : 0..MaxAssetSize,
                  encoding : Encodings, dir : AssetDirs]
    \* only a text asset is ever decoded; a gbk asset is not empty and holds
    \* whole characters
    /\ asset.category # "text" => asset.encoding = "utf8"
    /\ asset.encoding = "gbk" => (asset.size > 0 /\ asset.size % 2 = 0)
    /\ ctx \in [img_max : 1..MaxCeiling, text_max : 1..MaxCeiling, mdDir : AssetDirs]
    /\ io \in [fail : IoFailures, targetExists : BOOLEAN]
    /\ embedOut = NotEmbedded

Embed ==
    /\ embedOut = NotEmbedded
    /\ embedOut' = try_embed_file
    /\ UNCHANGED <<asset, ctx, io>>
    /\ UNCHANGED <<guiVars, batchVars, locVars, normVars, tsVars, msgVars, statVars, convVars, aggVars, copyVars>>

(***************************************************************************)
(* _format_timestamp.  Python integers are unbounded and the values at     *)
(* stake exceed 2^31, so a timestamp is held as the sequence of its        *)
(* decimal digits, most significant first, and the arithmetic is done on   *)
(* digits.  Only non-negative integer timestamps whose instant lies before *)
(* the year 10000 are modelled (datetime raises beyond it).                *)
(***************************************************************************)
\* The raw timestamps tried are m * 10^e, and the same with the last three
\* digits 123, for m up to MaxMantissa and e up to MaxExponent.
MaxMantissa == 17
MaxExponent == 9

Zeros(n) == [i \in 1..n |-> 0]

RECURSIVE DigitsOf(_)
DigitsOf(n) == IF n < 10 THEN <<n>> ELSE Append(DigitsOf(n \div 10), n % 10)

RECURSIVE ToInt(_)
ToInt(d) == IF d = <<>> THEN 0 ELSE 10 * ToInt(SubSeq(d, 1, Len(d) - 1)) + d[Len(d)]

RECURSIVE StripZeros(_)
StripZeros(d) == IF Len(d) > 1 /\ d[1] = 0 THEN StripZeros(Tail(d)) ELSE d

\* a < b
LessThan(a, b) ==
    \/ Len(a) < Len(b)
    \/ /\ Len(a) = Len(b)
       /\ \E i \in 1..Len(a) : a[i] < b[i] /\ \A j \in 1..(i - 1) : a[j] = b[j]

\* d * 1000
TimesThousand(d) == IF d = <<0>> THEN d ELSE d \o Zeros(3)

\* Long division of d by a small k: <<quotient digits, remainder>>.
RECURSIVE LongDivide(_, _)
LongDivide(d, k) ==
    IF d = <<>> THEN << <<>>, 0 >>
    ELSE LET prev == LongDivide(SubSeq(d, 1, Len(d) - 1), k)
             cur == prev[2] * 10 + d[Len(d)]
         IN  <<Append(prev[1], cur \div k), cur % k>>

DivMod(d, k) == LET r == LongDivide(d, k) IN <<StripZeros(r[1]), r[2]>>

\* 10_000_000_000
TenBillion == <<1>> \o Zeros(10)

\* ms < 10_000_000_000
BelowThresholdShifted(ms) == LessThan(ms, <<1>> \o Zeros(9))
BelowThreshold(ms) == LessThan(ms, TenBillion)

\* The proleptic Gregorian date of the day `days` days after 1970-01-01, as
\* datetime computes it.
CivilFromDays(days) ==
    LET z == days + 719468
        era == z \div 146097
        doe == z - era * 146097
        yoe == (doe - doe \div 1460 + doe \div 36524 - doe \div 146096) \div 365
        doy == doe - (365 * yoe + yoe \div 4 - yoe \div 100)
        mp == (5 * doy + 2) \div 153
        d == doy - (153 * mp + 2) \div 5 + 1
        m == IF mp < 10 THEN mp + 3 ELSE mp - 9
        y == yoe + era * 400 + (IF m <= 2 THEN 1 ELSE 0)
    IN  <<y, m, d>>

\* datetime.fromtimestamp(ms / 1000, tz=timezone.utc).isoformat(): the date,
\* the time of day, the microseconds (printed only when not zero) and the
\* offset.
IsoFormat(ms) ==
    LET bySecond == DivMod(ms, 1000)            \* <<seconds, millisecond>>
        byMinute == DivMod(bySecond[1], 60)     \* <<minutes, second>>
        byHour == DivMod(byMinute[1], 60)       \* <<hours, minute>>
        byDay == DivMod(byHour[1], 24)          \* <<days, hour>>
    IN  [date |-> CivilFromDays(ToInt(byDay[1])),
         time |-> <<byDay[2], byHour[2], byMinute[2]>>,
         microsecond |-> bySecond[2] * 1000,
         offset |-> "+00:00"]

\* The second component of _format_timestamp(ms), for ms not None.
_format_timestamp(ms) ==
    IsoFormat(IF BelowThreshold(ms) THEN TimesThousand(ms) ELSE ms)

NotFormatted == [date |-> <<>>, time |-> <<>>, microsecond |-> 0, offset |-> ""]

TimestampSamples ==
    {DigitsOf(m) \o Zeros(e) : m \in 1..MaxMantissa, e \in 0..MaxExponent}
    \cup {DigitsOf(m) \o Zeros(e - 3) \o <<1, 2, 3>> :
             m \in 1..MaxMantissa, e \in 3..MaxExponent}

IdleTs ==
    /\ raw_ts = <<0>>
    /\ isoRaw = NotFormatted
    /\ isoScaled = NotFormatted

InitTs ==
    /\ raw_ts \in TimestampSamples
    /\ isoRaw = NotFormatted
    /\ isoScaled = NotFormatted

\* _format_timestamp(raw_ts)
FormatRaw ==
    /\ isoRaw = NotFormatted
    /\ isoRaw' = _format_timestamp(raw_ts)
    /\ UNCHANGED <<raw_ts, isoScaled>>
    /\ UNCHANGED <<guiVars, batchVars, locVars, normVars, embedVars, msgVars, statVars, convVars, aggVars, copyVars>>

\* _format_timestamp(raw_ts * 1000): the same number read as milliseconds.
FormatScaled ==
    /\ isoScaled = NotFormatted
    /\ isoScaled' = _format_timestamp(TimesThousand(raw_ts))
    /\ UNCHANGED <<raw_ts, isoRaw>>
    /\ UNCHANGED <<guiVars, batchVars, locVars, normVars, embedVars, msgVars, statVars, convVars, aggVars, copyVars>>

(***************************************************************************)
(* extract_messages.  A session record is read one request at a time, and  *)
(* within a request one response item at a time; each step draws the part  *)
(* of the record it reads.  An entry is modelled by its role, content and   *)
(* requestIndex (requestId, the two times and fileRefs are carried along    *)
(* by the code but decide nothing).  A text is a sequence of characters;    *)
(* the empty sequence also stands for a missing or None text.               *)
(***************************************************************************)
\* Longest requests list, and longest response list of one request.
MaxRequests == 2
MaxResponses == 2

RECURSIVE NewlineRun(_)
NewlineRun(s) == IF s # <<>> /\ Head(s) = "\n" THEN 1 + NewlineRun(Tail(s)) ELSE 0

\* re.sub(r'\n{3,}', '\n\n', text)
RECURSIVE CollapseNewlines(_)
CollapseNewlines(s) ==
    IF s = <<>> THEN <<>>
    ELSE LET n == NewlineRun(s) IN
         IF n = 0 THEN <<Head(s)>> \o CollapseNewlines(Tail(s))
         ELSE (IF n >= 3 THEN <<"\n", "\n">> ELSE SubSeq(s, 1, n))
                  \o CollapseNewlines(SubSeq(s, n + 1, Len(s)))

sanitize_markdown(text) ==
    IF text = <<>> THEN <<>> ELSE RStrip(CollapseNewlines(text), Whitespace)

\* '\n'.join(collected)
RECURSIVE JoinLines(_)
JoinLines(ts) ==
    IF ts = <<>> THEN <<>>
    ELSE IF Len(ts) = 1 THEN ts[1]
    ELSE ts[1] \o <<"\n">> \o JoinLines(Tail(ts))

\* The texts of the parts that are mappings with a truthy text.
RECURSIVE Collected(_)
Collected(parts) ==
    IF parts = <<>> THEN <<>>
    ELSE (IF Head(parts).isDict /\ Head(parts).text # <<>>
          THEN <<Head(parts).text>> ELSE <<>>) \o Collected(Tail(parts))

extract_text_from_message(msg) ==
    IF ~msg.present THEN <<>>
    ELSE IF msg.text # <<>> THEN Strip(msg.text, Whitespace)
    ELSE Strip(JoinLines(Collected(msg.parts)), Whitespace)

MessageTexts == {<<>>, <<"\n", "\n", "\n">>, <<" ", "a", " ">>,
                 <<"a", "\n", "\n", "\n", "a", "\n">>}
PartTexts == {<<>>, <<" ", "a", " ">>}
PartShapes == {p \in [isDict : BOOLEAN, text : PartTexts] : ~p.isDict => p.text = <<>>}
PartLists == {<<>>} \cup {<<p>> : p \in PartShapes}
                 \cup {<<p, q>> : p \in PartShapes, q \in PartShapes}

\* req.get('message') or {}: a missing or empty message, or one with its
\* text and parts.  The parts are read only when the text is falsy.
MessageShapes ==
    {m \in [present : BOOLEAN, text : MessageTexts, parts : PartLists] :
        /\ ~m.present => (m.text = <<>> /\ m.parts = <<>>)
        /\ m.text # <<>> => m.parts = <<>>}

\* One item of req['response']: a mapping with a 'value' or not, and the
\* value a str or not.
ResponseShapes ==
    {r \in [hasValue : BOOLEAN, isStr : BOOLEAN, value : MessageTexts] :
        /\ ~r.hasValue => ~r.isStr
        /\ ~r.isStr => r.value = <<>>}

Entry(role, content, idx) == [role |-> role, content |-> content, requestIndex |-> idx]

\* if cleaned: (and if user_text:)
KeepAlways(text) == TRUE
KeepText(text) == text # <<>>

\* Lines 145-155: the user entry of a request, if any.
UserEntries(msg, idx) ==
    LET user_text == extract_text_from_message(msg) IN
    IF KeepText(user_text)
    THEN <<Entry("user", sanitize_markdown(user_text), idx)>>
    ELSE <<>>

\* Lines 158-172: the assistant entry of one response item, if any.
AssistantEntries(resp, idx) ==
    IF ~(resp.hasValue /\ resp.isStr) THEN <<>>
    ELSE LET cleaned == sanitize_markdown(resp.value) IN
         IF KeepText(cleaned) THEN <<Entry("assistant", cleaned, idx)>> ELSE <<>>

IdleMsg ==
    /\ req_index = 0
    /\ resp_index = 0
    /\ lines = <<>>
    /\ dropped = FALSE

InitMsg ==
    /\ req_index = 0
    /\ resp_index = 0
    /\ lines = <<>>
    /\ dropped = FALSE

\* The outer loop takes the next request: lines 120-155.
StartRequest ==
    /\ req_index < MaxRequests
    /\ \E msg \in MessageShapes :
           LET new == UserEntries(msg, req_index + 1) IN
           /\ lines' = lines \o new
           /\ dropped' = (dropped \/ new = <<>>)
    /\ req_index' = req_index + 1
    /\ resp_index' = 0
    /\ UNCHANGED <<guiVars, batchVars, locVars, normVars, embedVars, tsVars, statVars, convVars, aggVars, copyVars>>

\* The inner loop takes the next response item: lines 157-172.
NextResponse ==
    /\ req_index >= 1
    /\ resp_index < MaxResponses
    /\ \E resp \in ResponseShapes :
           LET new == AssistantEntries(resp, req_index) IN
           /\ lines' = lines \o new
           /\ dropped' = (dropped \/ new = <<>>)
    /\ resp_index' = resp_index + 1
    /\ UNCHANGED req_index
    /\ UNCHANGED <<guiVars, batchVars, locVars, normVars, embedVars, tsVars, statVars, convVars, aggVars, copyVars>>

(***************************************************************************)
(* _collect_code_stats.  A message content is a sequence of characters;    *)
(* the backtick is written "\\x60".  The loop over the messages is one      *)
(* step per message, and each step draws a content made of two segments    *)
(* (either may be empty): plain text, a closed block with a tag and some   *)
(* inner lines, a one-line span, a lone fence or a lone backtick.          *)
(***************************************************************************)
\* Longest list of messages, and most inner lines of a block.
MaxMessages == 2
MaxInner == 3

BT == "\\x60"
Fence == <<BT, BT, BT>>

IsFenceAt(s, i) == i + 2 <= Len(s) /\ s[i] = BT /\ s[i + 1] = BT /\ s[i + 2] = BT

NoFence == 0

\* The first position at or after `from` where three backticks start.
FindFence(s, from) ==
    IF \E i \in from..Len(s) : IsFenceAt(s, i)
    THEN CHOOSE i \in from..Len(s) :
             IsFenceAt(s, i) /\ \A k \in from..(i - 1) : ~IsFenceAt(s, k)
    ELSE NoFence

\* code_block_pattern.finditer(content), from position `from` on: the
\* matches of ```(.*?)``` with DOTALL, leftmost first, each as short as can be.
RECURSIVE FindAll(_, _)
FindAll(s, from) ==
    LET i == FindFence(s, from) IN
    IF i = NoFence THEN <<>>
    ELSE LET j == FindFence(s, i + 3) IN
         IF j = NoFence THEN <<>>
         ELSE <<SubSeq(s, i, j + 2)>> \o FindAll(s, j + 3)

\* str.split('\n')
RECURSIVE SplitNewline(_)
SplitNewline(s) ==
    IF \E i \in 1..Len(s) : s[i] = "\n"
    THEN LET i == CHOOSE i \in 1..Len(s) : s[i] = "\n" /\ \A k \in 1..(i - 1) : s[k] # "\n"
         IN  <<SubSeq(s, 1, i - 1)>> \o SplitNewline(SubSeq(s, i + 1, Len(s)))
    ELSE <<s>>

\* first_line.strip('`').strip().lower()
Lang(block) ==
    LowerStr(Strip(Strip(SplitNewline(block)[1], {BT}), Whitespace))

\* max(0, len(inner_lines) - 2)
LinesUncut(n) == n
LinesBetweenFences(n) == IF n - 2 > 0 THEN n - 2 ELSE 0

\* What one block adds to code_block_lines.
InnerLines(block) ==
    LET inner_lines == SplitNewline(Strip(block, Whitespace)) IN
    IF Len(inner_lines) >= 2 THEN LinesBetweenFences(Len(inner_lines)) ELSE 0

\* lang_counter[lang] = lang_counter.get(lang, 0) + 1, for a non-empty lang
CountLang(counter, lang) ==
    IF lang = <<>> THEN counter
    ELSE IF lang \in DOMAIN counter THEN [counter EXCEPT ![lang] = @ + 1]
    ELSE [l \in DOMAIN counter \cup {lang} |->
              IF l = lang THEN 1 ELSE counter[l]]

NoLangs == [l \in {} |-> 0]

NoStats == [code_blocks |-> 0, code_block_lines |-> 0, code_langs |-> NoLangs]

\* The body of the inner loop, for the blocks of one content in turn.
RECURSIVE AddBlocks(_, _)
AddBlocks(st, blocks) ==
    IF blocks = <<>> THEN st
    ELSE AddBlocks([code_blocks |-> st.code_blocks + 1,
                    code_block_lines |-> st.code_block_lines + InnerLines(Head(blocks)),
                    code_langs |-> CountLang(st.code_langs, Lang(Head(blocks)))],
                   Tail(blocks))

\* ---- the contents tried
Python == <<"p", "y", "t", "h", "o", "n">>
\* a tag as written after the opening fence, and the key it is counted under
Tags == {[raw |-> <<>>, lang |-> <<>>],
         [raw |-> Python, lang |-> Python],
         [raw |-> <<"P", "y", " ">>, lang |-> <<"p", "y">>]}

RECURSIVE CodeLines(_)
CodeLines(n) == IF n = 0 THEN <<>> ELSE <<"a", "\n">> \o CodeLines(n - 1)

Segment(text, blocks, inner, lang, ok) ==
    [text |-> text, blocks |-> blocks, inner |-> inner, lang |-> lang, ok |-> ok]

Segments ==
    {Segment(<<>>, 0, 0, <<>>, TRUE),
     Segment(<<"a", " ", "a", "\n">>, 0, 0, <<>>, TRUE),
     Segment(Fence \o <<"a">> \o Fence, 1, 0, <<"a">>, TRUE),
     Segment(Fence, 0, 0, <<>>, FALSE),
     Segment(<<BT>>, 0, 0, <<>>, FALSE)}
    \cup {Segment(Fence \o t.raw \o <<"\n">> \o CodeLines(n) \o Fence \o <<"\n">>,
                  1, n, t.lang, TRUE) : t \in Tags, n \in 0..MaxInner}

\* The statistics a segment stands for.
AddSegment(st, seg) ==
    [code_blocks |-> st.code_blocks + seg.blocks,
     code_block_lines |-> st.code_block_lines + seg.inner,
     code_langs |-> IF seg.blocks = 1 THEN CountLang(st.code_langs, seg.lang)
                    ELSE st.code_langs]

\* The fences of a content, counted from the left without overlap.
RECURSIVE FenceCount(_, _)
FenceCount(s, from) ==
    LET i == FindFence(s, from) IN
    IF i = NoFence THEN 0 ELSE 1 + FenceCount(s, i + 3)

IdleStats ==
    /\ msg_no = 0
    /\ stats = NoStats
    /\ expected = NoStats
    /\ wellFormed = TRUE
    /\ pairs = 0

InitStats ==
    /\ msg_no = 0
    /\ stats = NoStats
    /\ expected = NoStats
    /\ wellFormed = TRUE
    /\ pairs = 0

\* One iteration of `for ln in lines`: lines 180-191.
CollectMessage ==
    /\ msg_no < MaxMessages
    /\ \E s1 \in Segments, s2 \in Segments :
           LET content == s1.text \o s2.text IN
           /\ stats' = AddBlocks(stats, FindAll(content, 1))
           /\ expected' = AddSegment(AddSegment(expected, s1), s2)
           /\ wellFormed' = (wellFormed /\ s1.ok /\ s2.ok)
           /\ pairs' = pairs + FenceCount(content, 1) \div 2
    /\ msg_no' = msg_no + 1
    /\ UNCHANGED <<guiVars, batchVars, locVars, normVars, embedVars, tsVars, msgVars, convVars, aggVars, copyVars>>

(***************************************************************************)
(* convert_file on one input file, and is_chat_session_json.  The loaded   *)
(* JSON value is described by what the two functions look at: whether it   *)
(* is a mapping, its version, its requests field and, when that is a list, *)
(* the kind of each entry:                                                 *)
(*   scalar      not a mapping (a string, a number, null, a list)          *)
(*   plain       a mapping with neither a message nor a response key       *)
(*   message     a mapping with a message that is a mapping                *)
(*   response    a mapping with a response list                            *)
(*   badmessage  a mapping whose message is a non-empty string             *)
(***************************************************************************)
\* Longest requests list.
MaxEntries == 2

Versions == {"int 3", "float 3.0", "str 3", "int 2", "absent"}
RequestsKinds == {"absent", "notlist", "list"}
EntryKinds == {"scalar", "plain", "message", "response", "badmessage"}
Destinations == {"ok", "makedirs raises", "open raises"}

\* data.get('version') != 3 is false
EqualsThree(v) == v \in {"int 3", "float 3.0"}

\* isinstance(r, dict) and ('message' in r or 'response' in r)
CarriesPayload(e) == e \in {"message", "response", "badmessage"}

\* The loop of lines 67-70, from entry i on.
RECURSIVE AnyPayload(_, _)
AnyPayload(reqs, i) ==
    IF i > Len(reqs) THEN FALSE
    ELSE IF CarriesPayload(reqs[i]) THEN TRUE
    ELSE AnyPayload(reqs, i + 1)

is_chat_session_json(data) ==
    IF ~data.isMapping THEN FALSE
    ELSE IF ~EqualsThree(data.version) THEN FALSE
    ELSE IF data.requests # "list" \/ data.entries = <<>> THEN FALSE
    ELSE AnyPayload(data.entries, 1)

\* extract_messages raises AttributeError: req.get on an entry that is not
\* a mapping (line 121), or msg.get on a message that is a string (line 75).
ExtractRaises(data) ==
    \E i \in 1..Len(data.entries) : data.entries[i] \in {"scalar", "badmessage"}

ConvertResult(res, wrote, read) ==
    [result |-> res, written |-> wrote, extracted |-> read]

NotConverted == ConvertResult("unset", FALSE, FALSE)

convert_file(file) ==
    IF ~file.readable THEN ConvertResult("none", FALSE, FALSE)
    ELSE IF ~is_chat_session_json(file.data) THEN ConvertResult("none", FALSE, FALSE)
    ELSE IF file.dest = "makedirs raises" THEN ConvertResult("raise", FALSE, FALSE)
    ELSE IF ExtractRaises(file.data) THEN ConvertResult("raise", FALSE, TRUE)
    ELSE IF file.dest = "open raises" THEN ConvertResult("raise", FALSE, TRUE)
    ELSE ConvertResult("md", TRUE, TRUE)

EntryLists ==
    UNION {[1..n -> EntryKinds] : n \in 0..MaxEntries}

DataShapes ==
    {d \in [isMapping : BOOLEAN, version : Versions, requests : RequestsKinds,
            entries : EntryLists] :
        /\ ~d.isMapping => (d.version = "absent" /\ d.requests = "absent")
        /\ d.requests # "list" => d.entries = <<>>}

UnloadedData == [isMapping |-> FALSE, version |-> "absent", requests |-> "absent",
             entries |-> <<>>]

IdleConvert ==
    /\ input = [readable |-> FALSE, data |-> UnloadedData, dest |-> "ok"]
    /\ convOut = NotConverted

InitConvert ==
    /\ input \in [readable : BOOLEAN, data : DataShapes, dest : Destinations]
    \* nothing is known of a file that cannot be loaded
    /\ ~input.readable => input.data = UnloadedData
    /\ convOut = NotConverted

ConvertFile ==
    /\ convOut = NotConverted
    /\ convOut' = convert_file(input)
    /\ UNCHANGED input
    /\ UNCHANGED <<guiVars, batchVars, locVars, normVars, embedVars, tsVars, msgVars, statVars, aggVars, copyVars>>

(***************************************************************************)
(* aggregate_markdown.py: make_slug and the loop of aggregate (lines       *)
(* 35-47, 78-81, 97-154), called several times in one process.             *)
(***************************************************************************)
\* Number of *.md files under root.
NumMdFiles == 2
\* Longest file name, without its extension.
MaxStem == 2
\* Calls of aggregate in one process, on the unchanged files.
NumRuns == 2

AggRuns == 1..NumRuns

\* The characters file names are made of: letters in both cases, a digit
\* and one character outside [0-9A-Za-z].
StemChars == {"a", "A", "2", "-"}
Stems == UNION {[1..n -> StemChars] : n \in 1..MaxStem}
\* os.path.relpath(path, root) of a file that lies in root itself
RelPath(stem) == stem \o <<".", "m", "d">>

\* [0-9A-Za-z]; no name of the model holds a character of 一-龥
IsSlugChar(c) == IsLetter(c) \/ \E i \in 1..10 : HexDigits[i] = c

RECURSIVE SubDashes(_)
\* re.sub(r'[^0-9A-Za-z一-龥]+', '-', text)
SubDashes(s) ==
    IF s = <<>> THEN <<>>
    ELSE IF IsSlugChar(Head(s)) THEN <<Head(s)>> \o SubDashes(Tail(s))
    ELSE IF Len(s) > 1 /\ ~IsSlugChar(s[2]) THEN SubDashes(Tail(s))
    ELSE <<"-">> \o SubDashes(Tail(s))

\* str(i)
Decimal(i) == [k \in 1..Len(DigitsOf(i)) |-> HexDigits[DigitsOf(i)[k] + 1]]

Section == <<"s", "e", "c", "t", "i", "o", "n">>

\* lines 38-40
SlugBase(text) ==
    LET base == LowerStr(Strip(SubDashes(Strip(text, Whitespace)), {"-"}))
    IN  IF base = <<>> THEN Section ELSE base

RECURSIVE FreeSlug(_, _, _)
\* lines 42-45: the loop is entered with slug = base (i = 1 here) and tries
\* base-2, base-3, ... until the slug is not a key of the cache
FreeSlug(base, i, cache) ==
    LET slug == IF i = 1 THEN base ELSE base \o <<"-">> \o Decimal(i)
    IN  IF slug \in cache THEN FreeSlug(base, i + 1, cache) ELSE slug

\* make_slug(text), reading the module-level cache
make_slug(text) == FreeSlug(SlugBase(text), 1, SlugCache)

CodePoint(c) == 31 + CHOOSE i \in 1..95 : Printable[i] = c

RECURSIVE StrLess(_, _)
\* a < b on str
StrLess(a, b) ==
    IF b = <<>> THEN FALSE
    ELSE IF a = <<>> THEN TRUE
    ELSE IF Head(a) # Head(b) THEN CodePoint(Head(a)) < CodePoint(Head(b))
    ELSE StrLess(Tail(a), Tail(b))

\* key(a) < key(b) for the key of sort_files (lines 79-81)
KeyLess(a, b, mode) ==
    IF mode = "mtime" THEN a.mtime < b.mtime
    ELSE StrLess(LowerStr(a.path), LowerStr(b.path))

RECURSIVE Insert(_, _, _)
\* x placed behind every member of the sorted s whose key is not greater
Insert(s, x, mode) ==
    IF s = <<>> THEN <<x>>
    ELSE IF KeyLess(x, s[Len(s)], mode)
         THEN Append(Insert(SubSeq(s, 1, Len(s) - 1), x, mode), s[Len(s)])
         ELSE Append(s, x)

RECURSIVE sort_files(_, _)
\* sorted(files, key=...): stable
sort_files(files, mode) ==
    IF files = <<>> THEN <<>>
    ELSE Insert(sort_files(SubSeq(files, 1, Len(files) - 1), mode), files[Len(files)], mode)

\* all_files of the running call (line 105)
all_files == sort_files(md_files, sort_mode)

SortModes == {"name", "mtime"}
MTimes == 1..NumMdFiles

\* aggregate has not been called; the module is loaded (line 35)
IdleAgg ==
    /\ SlugCache = {}
    /\ md_files = <<>>
    /\ sort_mode = "name"
    /\ agg_run = 0
    /\ agg_pos = 0
    /\ rel_slug_pairs = [r \in AggRuns |-> <<>>]

InitAggregate ==
    /\ SlugCache = {}
    /\ \E n \in 1..NumMdFiles :
          md_files \in [1..n -> [path : {RelPath(st) : st \in Stems},
                                 readable : BOOLEAN, mtime : MTimes]]
    /\ \A i, j \in 1..Len(md_files) : i # j => md_files[i].path # md_files[j].path
    /\ sort_mode \in SortModes
    \* modification times do not matter when sorting by name
    /\ sort_mode = "name" => \A i \in 1..Len(md_files) : md_files[i].mtime = 1
    /\ agg_run = 1
    /\ agg_pos = 0
    /\ rel_slug_pairs = [r \in AggRuns |-> <<>>]

\* One turn of the loop of lines 135-147.  derive_display_name returns
\* rel_path for these names (none is a GUID or longer than 24 characters).
AggregateFile ==
    /\ agg_run \in AggRuns
    /\ agg_pos < Len(all_files)
    /\ LET file == all_files[agg_pos + 1]
           slug == make_slug(file.path)
       IN  IF ~file.readable
           THEN UNCHANGED <<SlugCache, rel_slug_pairs>>
           ELSE /\ SlugCache' = SlugCache \cup {slug}
                /\ rel_slug_pairs' = [rel_slug_pairs EXCEPT ![agg_run] =
                                          Append(@, <<file.path, slug>>)]
    /\ agg_pos' = agg_pos + 1
    /\ UNCHANGED <<md_files, sort_mode, agg_run>>
    /\ UNCHANGED <<guiVars, batchVars, locVars, normVars, embedVars, tsVars, msgVars, statVars, convVars, copyVars>>

\* Lines 149-154: the output is written and the call returns; the next call
\* finds the same files (the output is no member of all_files, line 102).
AggregateReturn ==
    /\ agg_run \in AggRuns
    /\ agg_pos = Len(all_files)
    /\ agg_run' = agg_run + 1
    /\ agg_pos' = 0
    /\ UNCHANGED <<SlugCache, md_files, sort_mode, rel_slug_pairs>>
    /\ UNCHANGED <<guiVars, batchVars, locVars, normVars, embedVars, tsVars, msgVars, statVars, convVars, copyVars>>

(***************************************************************************)
(* try_embed_file, the branches that copy the candidate into an assets     *)
(* directory (videos, lines 411-423; other types, lines 440-452), called   *)
(* by several threads: convert_file runs in pool threads (line 538).       *)
(***************************************************************************)
\* Place 1 is a directory that holds a file named x; place p + 1 is the
\* assets directory of place p.
NumPlaces == 3
\* Chunks shutil.copy2 writes for one file.
NumChunks == 2
\* Threads that embed at the same time.
NumEmbedders == 2
\* Calls of try_embed_file in all.
MaxEmbeds == 3

Places == 1..NumPlaces
Embedders == 1..NumEmbedders

\* ensure_assets_dir(md_output_dummy, ...) with md_output_dummy = candidate:
\* the assets directory lies in the candidate's own directory, and
\* target_path has the candidate's base name (lines 412-414, 441-443).
AssetsOf(p) == p + 1

NoFile == [exists |-> FALSE, bytes |-> <<>>]
File(b) == [exists |-> TRUE, bytes |-> b]

\* The bytes of the file a user keeps at place p, chunk by chunk; files kept
\* at different places differ in every chunk.
SourceBytes(p) == [i \in 1..NumChunks |-> <<p, i>>]
Hole == <<0, 0>>

\* A resolved candidate: a file of the user's (os.path.exists(candidate)).
IsCandidate(p) == p < NumPlaces /\ disk[p] = File(SourceBytes(p))

\* write of chunk c at offset i of a file holding b (a write beyond the end
\* leaves a hole of zero bytes)
WriteAt(b, i, c) ==
    IF i <= Len(b) THEN [b EXCEPT ![i] = c]
    ELSE b \o [k \in 1..(i - 1 - Len(b)) |-> Hole] \o <<c>>

\* try_embed_file is not running.
IdleCopy ==
    /\ disk = [p \in Places |-> NoFile]
    /\ emb_pc = [w \in Embedders |-> "idle"]
    /\ emb_src = [w \in Embedders |-> 0]
    /\ emb_off = [w \in Embedders |-> 0]
    /\ links = {}
    /\ embeds = 0

\* The directory holds x; its assets directory is empty or holds another
\* file of the user's with the same name; the directories below are empty.
InitCopy ==
    /\ disk \in [Places -> {NoFile} \cup {File(SourceBytes(p)) : p \in Places}]
    /\ disk[1] = File(SourceBytes(1))
    /\ disk[2] \in {NoFile, File(SourceBytes(2))}
    /\ \A p \in Places : p > 2 => disk[p] = NoFile
    /\ emb_pc = [w \in Embedders |-> "idle"]
    /\ emb_src = [w \in Embedders |-> 0]
    /\ emb_off = [w \in Embedders |-> 0]
    /\ links = {}
    /\ embeds = 0

\* Lines 412-415 (441-444) and, when the target exists, 419-423 (448-452):
\* the test of os.path.exists(target_path); an existing target is linked as
\* it is.
EmbedBegin(w) ==
    /\ emb_pc[w] = "idle"
    /\ embeds < MaxEmbeds
    /\ embeds' = embeds + 1
    /\ \E p \in Places :
         /\ IsCandidate(p)
         /\ IF disk[AssetsOf(p)].exists
            THEN /\ links' = links \cup {<<p, AssetsOf(p)>>}
                 /\ UNCHANGED <<emb_pc, emb_src>>
            ELSE /\ emb_pc' = [emb_pc EXCEPT ![w] = "missing"]
                 /\ emb_src' = [emb_src EXCEPT ![w] = p]
                 /\ UNCHANGED links
    /\ UNCHANGED <<disk, emb_off>>
    /\ UNCHANGED <<guiVars, batchVars, locVars, normVars, embedVars, tsVars, msgVars, statVars, convVars, aggVars>>

\* Line 417 (446), shutil.copy2: the target is opened for writing, which
\* creates it or cuts it to no bytes.
CopyOpen(w) ==
    /\ emb_pc[w] = "missing"
    /\ disk' = [disk EXCEPT ![AssetsOf(emb_src[w])] = File(<<>>)]
    /\ emb_pc' = [emb_pc EXCEPT ![w] = "copying"]
    /\ emb_off' = [emb_off EXCEPT ![w] = 0]
    /\ UNCHANGED <<emb_src, links, embeds>>
    /\ UNCHANGED <<guiVars, batchVars, locVars, normVars, embedVars, tsVars, msgVars, statVars, convVars, aggVars>>

\* shutil.copy2 writes the next chunk of the candidate at its own offset.
CopyWrite(w) ==
    /\ emb_pc[w] = "copying"
    /\ emb_off[w] < NumChunks
    /\ LET t == AssetsOf(emb_src[w])
           i == emb_off[w] + 1
       IN  disk' = [disk EXCEPT ![t] =
                        File(WriteAt(disk[t].bytes, i, disk[emb_src[w]].bytes[i]))]
    /\ emb_off' = [emb_off EXCEPT ![w] = @ + 1]
    /\ UNCHANGED <<emb_pc, emb_src, links, embeds>>
    /\ UNCHANGED <<guiVars, batchVars, locVars, normVars, embedVars, tsVars, msgVars, statVars, convVars, aggVars>>

\* shutil.copy2 returns; lines 419-423 (448-452): the link is emitted.
CopyDone(w) ==
    /\ emb_pc[w] = "copying"
    /\ emb_off[w] = NumChunks
    /\ links' = links \cup {<<emb_src[w], AssetsOf(emb_src[w])>>}
    /\ emb_pc' = [emb_pc EXCEPT ![w] = "idle"]
    /\ emb_src' = [emb_src EXCEPT ![w] = 0]
    /\ emb_off' = [emb_off EXCEPT ![w] = 0]
    /\ UNCHANGED <<disk, embeds>>
    /\ UNCHANGED <<guiVars, batchVars, locVars, normVars, embedVars, tsVars, msgVars, statVars, convVars, aggVars>>

\* Lines 418-419 (447-448): shutil.copy2 raises (the target cannot be
\* opened, the device is full, a read fails); the note of the failure is
\* returned, no link is emitted, and what was written stays.
CopyFail(w) ==
    /\ emb_pc[w] \in {"missing", "copying"}
    /\ emb_pc' = [emb_pc EXCEPT ![w] = "idle"]
    /\ emb_src' = [emb_src EXCEPT ![w] = 0]
    /\ emb_off' = [emb_off EXCEPT ![w] = 0]
    /\ UNCHANGED <<disk, links, embeds>>
    /\ UNCHANGED <<guiVars, batchVars, locVars, normVars, embedVars, tsVars, msgVars, statVars, convVars, aggVars>>

IdleAux == IdleEmbed /\ IdleTs /\ IdleMsg /\ IdleStats /\ IdleConvert /\ IdleAgg /\ IdleCopy

(***************************************************************************)
(* Initial states                                                          *)
(***************************************************************************)
InitRun(kinds) ==
    /\ passes \in [Files -> BOOLEAN]
    /\ inputIsFile \in BOOLEAN
    \* The kind of a file that is never a candidate does not matter: such
    \* files are all given kind ok.
    /\ kind \in [Files -> kinds]
    /\ \A f \in Files : (~passes[f] \/ (inputIsFile /\ f # 1)) => kind[f] = "ok"
    /\ inputIsFile => \A f \in Files : f # 1 => passes[f]
    /\ parallel \in BOOLEAN
    /\ max_workers \in 1..MaxWorkers
    /\ (~parallel \/ inputIsFile) => max_workers = 1
    /\ cancel_flag = FALSE
    /\ pc = "entry"
    /\ all_json = <<>>
    /\ total = 0
    /\ converted = <<>>
    /\ done = 0
    /\ queue = <<>>
    /\ running = {}
    /\ result = [f \in Files |-> "pending"]
    /\ yielded = {}
    /\ excPending = FALSE
    /\ outcome = "none"
    /\ started = {}
    /\ written = {}
    /\ reports = <<>>
    /\ cancelAt = <<>>
    /\ IdleLocate
    /\ IdleNorm
    /\ IdleAux

\* No action of the control surface is running.
IdleGui ==
    /\ gui_action = "none"
    /\ inWindow = [f \in Files |-> TRUE]
    /\ aggregated = FALSE

InitBatch == InitRun(Kinds) /\ IdleGui

\* convert_file(f) never returns.
Hangs(f) == kind[f] \in Hanging

(***************************************************************************)
(* Another thread (the control surface, or the progress callback between   *)
(* two iterations) sets the cancellation flag.                             *)
(***************************************************************************)
Cancel ==
    /\ ~cancel_flag
    /\ pc \notin {"returned", "raised", "gui done"}
    /\ cancel_flag' = TRUE
    /\ cancelAt' = <<Cardinality(started), NumFinished>>
    /\ UNCHANGED <<guiVars, locVars, normVars, auxVars, kind, passes, inputIsFile, parallel, max_workers, pc, all_json,
                   total, converted, done, queue, running, result, yielded,
                   excPending, outcome, started, written, reports>>

(***************************************************************************)
(* convert_path, single-file input (lines 497-511)                         *)
(***************************************************************************)
\* Lines 497-508: the flag, then the filter, then the call of convert_file.
SingleStart ==
    /\ pc = "entry"
    /\ inputIsFile
    /\ IF CancelRequested \/ ~Keep(1)
       THEN /\ pc' = "returned"
            /\ outcome' = "empty"
            /\ UNCHANGED <<started, running>>
       ELSE /\ pc' = "single"
            /\ started' = started \cup {1}
            /\ running' = {1}
            /\ UNCHANGED outcome
    /\ UNCHANGED <<guiVars, locVars, normVars, auxVars, kind, passes, inputIsFile, parallel, max_workers, cancel_flag,
                   all_json, total, converted, done, queue, result, yielded,
                   excPending, written, reports, cancelAt>>

\* Lines 508-511: convert_file ends; progress_cb(1, 1, path); return.
SingleFinish ==
    /\ pc = "single"
    /\ ~Hangs(1)
    /\ running' = {}
    /\ result' = [result EXCEPT ![1] = ConvertOutcome(kind[1])]
    /\ written' = IF WritesDoc(kind[1]) THEN written \cup {1} ELSE written
    /\ IF ConvertOutcome(kind[1]) = "raise"
       THEN /\ pc' = "raised"
            /\ outcome' = "raised"
            /\ UNCHANGED <<converted, reports>>
       ELSE /\ pc' = "returned"
            /\ outcome' = "single"
            /\ converted' = Collect(ConvertOutcome(kind[1]), 1)
            /\ reports' = Append(reports, <<1, 1, 1>>)
    /\ UNCHANGED <<guiVars, locVars, normVars, auxVars, kind, passes, inputIsFile, parallel, max_workers, cancel_flag,
                   all_json, total, done, queue, yielded, excPending, started,
                   cancelAt>>

(***************************************************************************)
(* convert_path, directory input: discovery (lines 513-526)                *)
(***************************************************************************)
DiscoverFiles ==
    /\ pc = "entry"
    /\ ~inputIsFile
    /\ all_json' = Discover(1)
    /\ total' = Len(all_json')
    /\ IF total' = 0
       THEN pc' = "returned" /\ outcome' = "empty"
       ELSE /\ pc' = IF parallel /\ total' > 1 THEN "submit" ELSE "seq"
            /\ UNCHANGED outcome
    /\ UNCHANGED <<guiVars, locVars, normVars, auxVars, kind, passes, inputIsFile, parallel, max_workers, cancel_flag,
                   converted, done, queue, running, result, yielded, excPending,
                   started, written, reports, cancelAt>>

(***************************************************************************)
(* Sequential branch (lines 550-564)                                       *)
(***************************************************************************)
\* Lines 550-559: the loop head, the test of the flag and, if it is not set,
\* the call of convert_file on the next candidate.  The test is the moment the
\* iteration commits to the conversion: test and call are one step, and a
\* flag set later counts as set while that conversion is in flight.
SeqNext ==
    /\ pc = "seq"
    /\ IF done = total \/ CancelRequested
       THEN /\ pc' = "epilogue"
            /\ UNCHANGED <<started, running>>
       ELSE /\ pc' = "seqrun"
            /\ started' = started \cup {NextSeqFile}
            /\ running' = {NextSeqFile}
    /\ UNCHANGED <<guiVars, locVars, normVars, auxVars, kind, passes, inputIsFile, parallel, max_workers, cancel_flag,
                   all_json, total, converted, done, queue, result, yielded,
                   excPending, outcome, written, reports, cancelAt>>

\* Line 559: convert_file returns or raises.
SeqFinish ==
    /\ pc = "seqrun"
    /\ \E f \in running :
         /\ ~Hangs(f)
         /\ running' = {}
         /\ result' = [result EXCEPT ![f] = ConvertOutcome(kind[f])]
         /\ written' = IF WritesDoc(kind[f]) THEN written \cup {f} ELSE written
         /\ IF ConvertOutcome(kind[f]) = "raise"
            THEN pc' = "raised" /\ outcome' = "raised"
            ELSE pc' = "seqreport" /\ UNCHANGED outcome
    /\ UNCHANGED <<guiVars, locVars, normVars, auxVars, kind, passes, inputIsFile, parallel, max_workers, cancel_flag,
                   all_json, total, converted, done, queue, yielded, excPending,
                   started, reports, cancelAt>>

\* Lines 560-564: collect the result, count, report progress.
SeqReport ==
    /\ pc = "seqreport"
    /\ converted' = Collect(result[NextSeqFile], NextSeqFile)
    /\ done' = done + 1
    /\ reports' = Append(reports, <<done', total, NextSeqFile>>)
    /\ pc' = "seq"
    /\ UNCHANGED <<guiVars, locVars, normVars, auxVars, kind, passes, inputIsFile, parallel, max_workers, cancel_flag,
                   all_json, total, queue, running, result, yielded, excPending,
                   outcome, started, written, cancelAt>>

(***************************************************************************)
(* Parallel branch (lines 526-548)                                         *)
(***************************************************************************)
NumSubmitted == Cardinality(started) + Len(queue)

\* ThreadPoolExecutor(max_workers=max_workers): a pool thread is free, or
\* can still be created, to take a work item.
IdleWorkerOfOne == Cardinality(running) < 1
IdleWorker == Cardinality(running) < max_workers

\* Lines 531-538: every candidate is submitted before anything else is
\* looked at; the flag is not read here.
ParSubmit ==
    /\ pc = "submit"
    /\ IF NumSubmitted = total
       THEN pc' = "collect" /\ UNCHANGED queue
       ELSE pc' = "submit" /\ queue' = Append(queue, all_json[NumSubmitted + 1])
    /\ UNCHANGED <<guiVars, locVars, normVars, auxVars, kind, passes, inputIsFile, parallel, max_workers, cancel_flag,
                   all_json, total, converted, done, running, result, yielded,
                   excPending, outcome, started, written, reports, cancelAt>>

\* A pool thread takes the oldest work item and calls convert_file.  The
\* pool has at most max_workers threads; they run until the queue is empty,
\* also while the with-block is being left (shutdown(wait=True)).
WorkerStart ==
    /\ pc \in {"submit", "collect", "shutdown"}
    /\ queue # <<>>
    /\ IdleWorker
    /\ started' = started \cup {Head(queue)}
    /\ running' = running \cup {Head(queue)}
    /\ queue' = Tail(queue)
    /\ UNCHANGED <<guiVars, locVars, normVars, auxVars, kind, passes, inputIsFile, parallel, max_workers, cancel_flag,
                   pc, all_json, total, converted, done, result, yielded,
                   excPending, outcome, written, reports, cancelAt>>

\* A pool thread that would report its own progress when convert_file ends
\* (no line of convert_path does this: the callback is not handed to submit).
WorkerFinishReporting ==
    /\ pc \in {"submit", "collect", "shutdown"}
    /\ \E f \in running :
         /\ ~Hangs(f)
         /\ running' = running \ {f}
         /\ result' = [result EXCEPT ![f] = ConvertOutcome(kind[f])]
         /\ written' = IF WritesDoc(kind[f]) THEN written \cup {f} ELSE written
         /\ reports' = Append(reports, <<Len(reports) + 1, total, f>>)
    /\ UNCHANGED <<guiVars, locVars, normVars, auxVars, kind, passes, inputIsFile, parallel, max_workers, cancel_flag,
                   pc, all_json, total, converted, done, queue, yielded,
                   excPending, outcome, started, cancelAt>>

\* convert_file ends in a pool thread; the future keeps its value or its
\* exception.
WorkerFinish ==
    /\ pc \in {"submit", "collect", "shutdown"}
    /\ \E f \in running :
         /\ ~Hangs(f)
         /\ running' = running \ {f}
         /\ result' = [result EXCEPT ![f] = ConvertOutcome(kind[f])]
         /\ written' = IF WritesDoc(kind[f]) THEN written \cup {f} ELSE written
    /\ UNCHANGED <<guiVars, locVars, normVars, auxVars, kind, passes, inputIsFile, parallel, max_workers, cancel_flag,
                   pc, all_json, total, converted, done, queue, yielded,
                   excPending, outcome, started, reports, cancelAt>>

\* Lines 539-548: as_completed yields a finished future (any of them); the
\* flag is tested; fut.result() returns or re-raises; collect, count, report.
ParCollect ==
    /\ pc = "collect"
    /\ IF Cardinality(yielded) = total
       THEN /\ pc' = "shutdown"
            /\ UNCHANGED <<yielded, converted, done, reports, excPending>>
       ELSE \E f \in Range(all_json) \ yielded :
              /\ result[f] # "pending"
              /\ yielded' = yielded \cup {f}
              /\ IF CancelRequested
                 THEN /\ pc' = "shutdown"
                      /\ UNCHANGED <<converted, done, reports, excPending>>
                 ELSE IF result[f] = "raise"
                 THEN /\ pc' = "shutdown"
                      /\ excPending' = TRUE
                      /\ UNCHANGED <<converted, done, reports>>
                 ELSE /\ pc' = "collect"
                      /\ converted' = Collect(result[f], f)
                      /\ done' = done + 1
                      /\ reports' = Append(reports, <<done', total, f>>)
                      /\ UNCHANGED excPending
    /\ UNCHANGED <<guiVars, locVars, normVars, auxVars, kind, passes, inputIsFile, parallel, max_workers, cancel_flag,
                   all_json, total, queue, running, result, outcome, started,
                   written, cancelAt>>

\* Leaving the with-block: ThreadPoolExecutor.__exit__ is shutdown(wait=True),
\* which returns once every submitted work item has run.
ParShutdown ==
    /\ pc = "shutdown"
    /\ queue = <<>>
    /\ running = {}
    /\ IF excPending
       THEN pc' = "raised" /\ outcome' = "raised"
       ELSE pc' = "epilogue" /\ UNCHANGED outcome
    /\ UNCHANGED <<guiVars, locVars, normVars, auxVars, kind, passes, inputIsFile, parallel, max_workers, cancel_flag,
                   all_json, total, converted, done, queue, running, result,
                   yielded, excPending, started, written, reports, cancelAt>>

(***************************************************************************)
(* Lines 565-569: the closing report and the return.                       *)
(***************************************************************************)
Epilogue ==
    /\ pc = "epilogue"
    /\ outcome' = FinalOutcome
    /\ pc' = "returned"
    /\ UNCHANGED <<guiVars, locVars, normVars, auxVars, kind, passes, inputIsFile, parallel, max_workers, cancel_flag,
                   all_json, total, converted, done, queue, running, result,
                   yielded, excPending, started, written, reports, cancelAt>>

NextBatch ==
    \/ Cancel
    \/ SingleStart
    \/ SingleFinish
    \/ DiscoverFiles
    \/ SeqNext
    \/ SeqFinish
    \/ SeqReport
    \/ ParSubmit
    \/ WorkerStart
    \/ WorkerFinish
    \/ ParCollect
    \/ ParShutdown
    \/ Epilogue

SpecBatch == InitBatch /\ [][NextBatch]_vars

(***************************************************************************)
(* Properties of convert_path, checked under SpecBatch.                    *)
(***************************************************************************)
\* The run took the sequential branch of a directory batch.
SeqMode == ~inputIsFile /\ pc # "entry" /\ total > 0 /\ ~(parallel /\ total > 1)
\* The run took the parallel branch.
ParMode == ~inputIsFile /\ pc # "entry" /\ parallel /\ total > 1

RECURSIVE SeqConverted(_)
\* What the sequential loop collects from candidate i on when nothing
\* cancels it and nothing raises.
SeqConverted(i) ==
    IF i > Len(all_json) THEN <<>>
    ELSE (IF ConvertOutcome(kind[all_json[i]]) = "md" THEN <<all_json[i]>> ELSE <<>>)
         \o SeqConverted(i + 1)

\* C1: once the cancellation flag is set, no conversion that had not yet
\* started ever starts (in either mode).
C1_NoStartAfterCancel == [][cancel_flag => started' \subseteq started]_vars

\* C2: in a directory batch a single candidate's failure never aborts the
\* batch: convert_path does not raise, and a run that is not cancelled has
\* attempted every candidate when it returns.
C2_FailureNeverAborts ==
    ~inputIsFile =>
        /\ pc # "raised"
        /\ (pc = "returned" /\ ~cancel_flag) => started = Range(all_json)

\* C3: whenever convert_path returns, the returned list is exactly the set
\* of documents written during the run.
C3_ResultIsWhatWasWritten == pc = "returned" => Range(converted) = written

\* C4: sequential batch of n convertible files; the flag is set when exactly
\* k < n conversions have completed and none is in flight: convert_path
\* returns exactly the results of the first k files and ends "cancelled",
\* an outcome that is neither "raised" nor "completed"; a sequential run
\* that nobody cancels ends "completed".
C4_SeqCancelAfterK ==
    (pc = "returned" /\ SeqMode) =>
        /\ ( /\ \A f \in Range(all_json) : kind[f] = "ok"
             /\ cancelAt # <<>>
             /\ cancelAt[1] = cancelAt[2]
             /\ cancelAt[1] < total )
           => /\ converted = SubSeq(all_json, 1, cancelAt[1])
              /\ Len(converted) = cancelAt[1]
              /\ outcome = "cancelled"
        /\ ~cancel_flag => outcome = "completed"

C4_Witness ==
    /\ pc = "returned" /\ SeqMode
    /\ total >= 3
    /\ \A f \in Range(all_json) : kind[f] = "ok"
    /\ cancelAt = <<2, 2>>
    /\ Len(converted) = 2
    /\ outcome = "cancelled"

\* C5: a file on which the inclusion predicate is false is never handed to
\* convert_file, is not counted in total, is in no progress report and is
\* not in the result, for a single-file input and for a directory input.
C5_FilteredFilesUntouched ==
    /\ \A f \in Files : ~passes[f] =>
          /\ f \notin started
          /\ f \notin Range(all_json)
          /\ f \notin Range(converted)
          /\ \A i \in 1..Len(reports) : reports[i][3] # f
    /\ (~inputIsFile /\ pc # "entry") =>
          /\ total = Cardinality({f \in Files : passes[f]})
          /\ \A i \in 1..Len(reports) : reports[i][2] = total

C5_Witness ==
    /\ pc = "returned" /\ ~inputIsFile
    /\ \E f \in Files : ~passes[f] /\ f < NumFiles
    /\ Len(converted) = total
    /\ total >= 1

\* C6: in sequential mode the candidates are converted one at a time in
\* discovery order, and the i-th progress report, made after the i-th
\* conversion and before the (i+1)-th starts, is (i, total, i-th candidate).
C6_SeqOrderAndProgress ==
    SeqMode =>
        /\ Len(reports) = done
        /\ \A i \in 1..Len(reports) : reports[i] = <<i, total, all_json[i]>>
        /\ Cardinality(running) <= 1
        /\ started = {all_json[i] : i \in 1..Cardinality(started)}
        /\ Cardinality(started) <= Len(reports) + 1
        /\ running # {} => running = {all_json[Len(reports) + 1]}

C6_Witness ==
    /\ SeqMode /\ pc = "seqrun"
    /\ Len(reports) = 2
    /\ \E f \in Range(all_json) : result[f] = "none"
    /\ running = {all_json[3]}

\* C7: with no cancellation, whatever the order in which the workers
\* complete, the parallel branch returns the same set of outputs, and as
\* many, as the sequential branch over the same candidates, and its last
\* progress report has done = total.
C7_ParallelSameAsSequential ==
    (pc = "returned" /\ ~inputIsFile /\ total > 0 /\ ~cancel_flag) =>
        /\ SeqMode => converted = SeqConverted(1)
        /\ ParMode =>
              /\ Range(converted) = Range(SeqConverted(1))
              /\ Len(converted) = Len(SeqConverted(1))
              /\ reports # <<>>
              /\ reports[Len(reports)][1] = total
              /\ reports[Len(reports)][2] = total

C7_Witness ==
    /\ pc = "returned" /\ ParMode /\ ~cancel_flag
    /\ Len(converted) >= 2
    /\ converted[1] > converted[2]
    /\ \E f \in Range(all_json) : result[f] = "none"

(***************************************************************************)
(* The reference locator: SpecLocate.                                      *)
(***************************************************************************)
IdleBatch ==
    /\ kind = [f \in Files |-> "ok"]
    /\ passes = [f \in Files |-> TRUE]
    /\ inputIsFile = FALSE
    /\ parallel = FALSE
    /\ max_workers = 1
    /\ cancel_flag = FALSE
    /\ pc = "idle"
    /\ all_json = <<>>
    /\ total = 0
    /\ converted = <<>>
    /\ done = 0
    /\ queue = <<>>
    /\ running = {}
    /\ result = [f \in Files |-> "pending"]
    /\ yielded = {}
    /\ excPending = FALSE
    /\ outcome = "none"
    /\ started = {}
    /\ written = {}
    /\ reports = <<>>
    /\ cancelAt = <<>>

NextLocate == Locate

InitLocateSpec == InitLocate /\ IdleBatch /\ IdleNorm /\ IdleAux /\ IdleGui

SpecLocate == InitLocateSpec /\ [][NextLocate]_vars

\* Some directory under the root holds a file named exactly as the reference.
ExactExists == \E d \in Dirs : refName \in fs[d]

\* C8: in the fallback search, whenever a file with exactly the reference's
\* base name exists anywhere under the root, an exact match is what is
\* resolved; a fuzzy match is resolved only when no exact match exists.
C8_ExactBeatsFuzzy ==
    \A i \in 1..Len(located) :
        (~DirectExists /\ ExactExists) => (located[i] # Miss /\ located[i][2] = refName)

\* C9: for a fixed reference, root and filesystem content, any two calls of
\* the locator resolve to the same candidate.
C9_ResolutionDeterministic ==
    \A i, j \in 1..Len(located) : located[i] = located[j]

(***************************************************************************)
(* Path normalisation: SpecNorm.                                           *)
(***************************************************************************)
NextNorm == Normalize

InitNormSpec == InitNorm /\ IdleBatch /\ IdleLocate /\ IdleAux /\ IdleGui

SpecNorm == InitNormSpec /\ [][NextNorm]_vars

\* C10: path normalisation is idempotent: normalising a normalised string
\* gives that string again.
C10_NormalizeIdempotent ==
    Len(normed) >= 2 => normed[2] = normed[1]

(***************************************************************************)
(* Embedding: SpecEmbed.                                                   *)
(***************************************************************************)
NextEmbed == Embed

InitEmbedSpec == InitEmbed /\ IdleBatch /\ IdleLocate /\ IdleNorm /\ IdleTs /\ IdleMsg /\ IdleStats /\ IdleConvert /\ IdleGui /\ IdleAgg /\ IdleCopy

SpecEmbed == InitEmbedSpec /\ [][NextEmbed]_vars

Embedded == embedOut # NotEmbedded

\* C11: embedding adds no more than the ceiling's number of bytes to the
\* document for an inlined image or text/code file, and copies no video or
\* other attachment larger than the ceiling into the assets directory.
C11_CeilingBoundsEmbed ==
    Embedded =>
        /\ embedOut.fragment = "inline_image" => embedOut.docBytes <= ctx.img_max
        /\ embedOut.fragment = "code_fence" => embedOut.docBytes <= ctx.text_max
        /\ \/ embedOut.copiedBytes <= ctx.img_max
           \/ embedOut.copiedBytes <= ctx.text_max

\* C12: a copied video or other attachment is placed in the assets
\* directory beside the destination Markdown document.
C12_AssetsBesideDocument ==
    (Embedded /\ embedOut.copiedInto # "none") => embedOut.copiedInto = ctx.mdDir

\* C13: try_embed_file raises for no resolved asset: an oversized asset,
\* undecodable text, and a failure of reading, of creating the assets
\* directory or of copying all end in a placeholder or note fragment.
C13_EmbedNeverRaises ==
    Embedded => embedOut.fragment # "raised"

\* C14: a readable image asset whose size is within the image ceiling, a
\* size of zero included, is inlined as a base64 image, and the "too large"
\* placeholder is produced exactly when the size exceeds the ceiling.
C14_ImageInlineIffWithinCeiling ==
    (Embedded /\ asset.category = "image" /\ io.fail # "read") =>
        /\ asset.size <= ctx.img_max => embedOut.fragment = "inline_image"
        /\ embedOut.fragment = "image_too_large" <=> asset.size > ctx.img_max

(***************************************************************************)
(* Timestamps: SpecTimestamp.                                              *)
(***************************************************************************)
NextTs == FormatRaw \/ FormatScaled

InitTsSpec == InitTs /\ IdleBatch /\ IdleLocate /\ IdleNorm /\ IdleEmbed /\ IdleMsg /\ IdleStats /\ IdleConvert /\ IdleGui /\ IdleAgg /\ IdleCopy

SpecTimestamp == InitTsSpec /\ [][NextTs]_vars

BothFormatted == isoRaw # NotFormatted /\ isoScaled # NotFormatted

TenMillion == <<1>> \o Zeros(7)

NextMsg == StartRequest \/ NextResponse

InitMsgSpec == InitMsg /\ IdleBatch /\ IdleLocate /\ IdleNorm /\ IdleEmbed /\ IdleTs /\ IdleStats /\ IdleConvert /\ IdleGui /\ IdleAgg /\ IdleCopy

SpecMessages == InitMsgSpec /\ [][NextMsg]_vars

\* C16: every entry of the list extract_messages builds has non-empty
\* content, the entries' request index never decreases along the list, and
\* a request's user entry comes before that request's assistant entries.
C16_EntriesNonEmptyAndOrdered ==
    /\ \A i \in 1..Len(lines) : lines[i].content # <<>>
    /\ \A i, j \in 1..Len(lines) :
           i < j => lines[i].requestIndex <= lines[j].requestIndex
    /\ \A i, j \in 1..Len(lines) :
           (/\ lines[i].requestIndex = lines[j].requestIndex
            /\ lines[i].role = "user"
            /\ lines[j].role = "assistant") => i < j

\* Two requests, the first with a user entry and two assistant entries, the
\* second with entries too, and something blank was left out on the way.
C16_Witness ==
    /\ req_index = 2
    /\ dropped
    /\ Len(lines) >= 4
    /\ lines[1].role = "user" /\ lines[1].requestIndex = 1
    /\ lines[2].role = "assistant" /\ lines[2].requestIndex = 1
    /\ lines[3].role = "assistant" /\ lines[3].requestIndex = 1
    /\ lines[4].requestIndex = 2

(***************************************************************************)
(* _collect_code_stats: SpecStats.                                         *)
(***************************************************************************)
NextStats == CollectMessage

InitStatsSpec ==
    InitStats /\ IdleBatch /\ IdleLocate /\ IdleNorm /\ IdleEmbed /\ IdleTs /\ IdleMsg /\ IdleConvert /\ IdleGui /\ IdleAgg /\ IdleCopy

SpecStats == InitStatsSpec /\ [][NextStats]_vars

\* C17: over all messages, code_blocks is the number of non-overlapping
\* triple-backtick spans found inside single contents (the fences of a
\* content paired in order), code_block_lines sums max(0, lines - 2) over
\* the spans, and code_langs counts each non-empty lower-cased tag of an
\* opening fence line: for messages made of text and closed blocks the
\* three are what the blocks were built with, so no fence gives (0, 0, {})
\* and a python block of 3 lines with an untagged empty block gives
\* (2, 3, {python: 1}).
C17_CodeStats ==
    /\ stats.code_blocks = pairs
    /\ wellFormed => stats = expected
    /\ (wellFormed /\ expected.code_blocks = 0) => stats = NoStats
    /\ (wellFormed /\ expected = [code_blocks |-> 2, code_block_lines |-> 3,
                                  code_langs |-> [l \in {Python} |-> 1]])
           => stats = [code_blocks |-> 2, code_block_lines |-> 3,
                       code_langs |-> [l \in {Python} |-> 1]]

\* One message holding a python block of 3 lines and an untagged empty one.
C17_Witness ==
    /\ msg_no = 1
    /\ wellFormed
    /\ expected = [code_blocks |-> 2, code_block_lines |-> 3,
                   code_langs |-> [l \in {Python} |-> 1]]
    /\ stats = expected

(***************************************************************************)
(* convert_file: SpecConvert.                                              *)
(***************************************************************************)
NextConvert == ConvertFile

InitConvertSpec ==
    /\ InitConvert /\ IdleBatch /\ IdleLocate /\ IdleNorm
    /\ IdleEmbed /\ IdleTs /\ IdleMsg /\ IdleStats /\ IdleGui /\ IdleAgg /\ IdleCopy

SpecConvert == InitConvertSpec /\ [][NextConvert]_vars

\* The four conditions of acceptance, as the claim words them.
AcceptanceConditions(data) ==
    /\ data.isMapping
    /\ EqualsThree(data.version)
    /\ data.requests = "list" /\ Len(data.entries) > 0
    /\ \E i \in 1..Len(data.entries) : CarriesPayload(data.entries[i])

\* C18: for a loaded structure (and a destination that can be written),
\* convert_file writes a document if and only if is_chat_session_json
\* accepts it; acceptance holds exactly under the four conditions; a
\* structure failing one is skipped, nothing written, nothing extracted.
C18_WritesIffAccepted ==
    (convOut # NotConverted /\ input.readable /\ input.dest = "ok") =>
        /\ convOut.written <=> is_chat_session_json(input.data)
        /\ is_chat_session_json(input.data) <=> AcceptanceConditions(input.data)
        /\ ~AcceptanceConditions(input.data) =>
               (convOut.result = "none" /\ ~convOut.written /\ ~convOut.extracted)

(***************************************************************************)
(* A conversion that never terminates: SpecHang.  The runs are those of    *)
(* SpecBatch, except that at most one file hangs.  The threads are         *)
(* scheduled by the operating system: a pool thread that can take or end a *)
(* work item does so, and so does the thread running convert_path.         *)
(***************************************************************************)
InitHang ==
    /\ InitRun(Kinds \cup Hanging)
    /\ IdleGui
    /\ Cardinality({f \in Files : Hangs(f)}) <= 1

\* Every step but the setting of the flag.
Progress ==
    \/ SingleStart \/ SingleFinish \/ DiscoverFiles
    \/ SeqNext \/ SeqFinish \/ SeqReport
    \/ ParSubmit \/ WorkerStart \/ WorkerFinish \/ ParCollect \/ ParShutdown
    \/ Epilogue

Fairness ==
    /\ WF_vars(WorkerStart)
    /\ WF_vars(WorkerFinish)
    /\ WF_vars(SingleStart \/ SingleFinish \/ DiscoverFiles \/ SeqNext \/ SeqFinish
               \/ SeqReport \/ ParSubmit \/ ParCollect \/ ParShutdown \/ Epilogue)

SpecHang == InitHang /\ [][NextBatch]_vars /\ Fairness

Dispatched == Range(queue) \cup running

GuiActions == {"generate", "both"}

\* The file_filter argument each action hands to convert_path:
\* _task_generate passes date_filter, seq_task passes none.
FilterPassed(action) ==
    IF action = "generate" THEN inWindow ELSE [f \in Files |-> TRUE]

InitGui ==
    /\ gui_action \in GuiActions
    /\ inWindow \in [Files -> BOOLEAN]
    /\ aggregated = FALSE
    /\ InitRun(Kinds)
    /\ passes = FilterPassed(gui_action)

\* The cancel button stays enabled until the thread is done (_on_done
\* disables it and drops the flag): the flag can also be set once
\* convert_path has returned.
GuiCancel ==
    /\ gui_action \in GuiActions
    /\ pc \in {"returned", "raised"}
    /\ ~cancel_flag
    /\ cancel_flag' = TRUE
    /\ UNCHANGED <<guiVars, locVars, normVars, auxVars, kind, passes, inputIsFile, parallel,
                   max_workers, pc, all_json, total, converted, done, queue, running,
                   result, yielded, excPending, outcome, started, written, reports,
                   cancelAt>>

\* _task_generate returns what convert_path returned (or WorkerThread.run
\* catches what it raised).
GenerateDone ==
    /\ gui_action = "generate"
    /\ pc \in {"returned", "raised"}
    /\ pc' = "gui done"
    /\ UNCHANGED <<guiVars, locVars, normVars, auxVars, kind, passes, inputIsFile, parallel,
                   max_workers, cancel_flag, all_json, total, converted, done, queue,
                   running, result, yielded, excPending, outcome, started, written,
                   reports, cancelAt>>

\* seq_task after convert_path: the flag is tested, then aggregate is called
\* (an exception of convert_path ends seq_task before both).
BothAggregate ==
    /\ gui_action = "both"
    /\ pc \in {"returned", "raised"}
    /\ pc' = "gui done"
    /\ aggregated' = (pc = "returned" /\ ~CancelRequested)
    /\ UNCHANGED <<gui_action, inWindow>>
    /\ UNCHANGED <<locVars, normVars, auxVars, kind, passes, inputIsFile, parallel,
                   max_workers, cancel_flag, all_json, total, converted, done, queue,
                   running, result, yielded, excPending, outcome, started, written,
                   reports, cancelAt>>

NextGui == NextBatch \/ GuiCancel \/ GenerateDone \/ BothAggregate

SpecGui == InitGui /\ [][NextGui]_vars

\* C20: both actions of the control surface that run convert_path hand it
\* the run's cancellation flag and the creation-date predicate, so neither
\* converts a file outside the selected date window, and after a cancelled
\* generate-then-aggregate run the aggregation is not executed.
C20_GuiKeepsFilterAndCancel ==
    /\ \A f \in Files : ~inWindow[f] => f \notin started
    /\ aggregated => ~cancel_flag

(***************************************************************************)
(* Specification: aggregate called NumRuns times in one process            *)
(***************************************************************************)
NextAggregate == AggregateFile \/ AggregateReturn

InitAggregateSpec ==
    /\ InitAggregate /\ IdleBatch /\ IdleLocate /\ IdleNorm
    /\ IdleEmbed /\ IdleTs /\ IdleMsg /\ IdleStats /\ IdleConvert /\ IdleGui /\ IdleCopy

SpecAggregate == InitAggregateSpec /\ [][NextAggregate]_vars

\* C21: the slugs of a call of aggregate depend on that call's files only:
\* every call that has returned, made in the same process on the same
\* unchanged files, gave each file the slug the first call gave it.
C21_SlugsSameInEveryRun ==
    \A r \in AggRuns :
        agg_run > r => rel_slug_pairs[r] = rel_slug_pairs[1]

(***************************************************************************)
(* Progress reports of a directory batch (SpecBatch)                       *)
(***************************************************************************)
\* The step is taken by a thread of the pool: pool threads, and only they,
\* take work items and end conversions while convert_path's thread is in
\* the parallel branch.
PoolThreadStep == ParMode /\ (running' # running \/ result' # result)

\* C22: in both modes of a directory batch progress_cb is called by the
\* thread that runs convert_path only (so never by two threads at once):
\* every step that reports is a step of that thread, it adds one report, the
\* done values are 1, 2, 3, ... in that order, none exceeds total, and total
\* is the same in every report of the run.
C22_ProgressOnlyFromRunnerInOrder ==
    [][(~inputIsFile /\ reports' # reports) =>
          /\ ~PoolThreadStep
          /\ pc \in {"collect", "seqreport"}
          /\ Len(reports') = Len(reports) + 1
          /\ SubSeq(reports', 1, Len(reports)) = reports
          /\ reports'[Len(reports')][1] = Len(reports')
          /\ reports'[Len(reports')][1] <= total
          /\ total' = total
          /\ \A i \in 1..Len(reports') : reports'[i][2] = total]_vars

\* Two reports have been made in the parallel branch while a pool thread is
\* still converting.
C22_Witness ==
    /\ ~inputIsFile
    /\ ParMode
    /\ Len(reports) = 2
    /\ running # {}

(***************************************************************************)
(* Specification: embeddings that copy, by concurrent workers              *)
(***************************************************************************)
NextCopy ==
    \E w \in Embedders :
        EmbedBegin(w) \/ CopyOpen(w) \/ CopyWrite(w) \/ CopyDone(w) \/ CopyFail(w)

InitCopySpec ==
    /\ InitCopy /\ IdleBatch /\ IdleLocate /\ IdleNorm
    /\ IdleEmbed /\ IdleTs /\ IdleMsg /\ IdleStats /\ IdleConvert /\ IdleAgg /\ IdleGui

SpecCopy == InitCopySpec /\ [][NextCopy]_vars

\* No call of try_embed_file is running.
Quiescent == \A w \in Embedders : emb_pc[w] = "idle"

\* C23: after any sequence of embeddings of videos and other attachments,
\* sequential or by concurrent workers, every emitted link to a copied asset
\* points to a file whose bytes are those of the source the link was made
\* for, also when different source files share a base name.
C23_LinksPointToSourceBytes ==
    Quiescent =>
        \A l \in links : disk[l[2]] = File(SourceBytes(l[1]))

====
